---- MODULE Spec2Model ----
(***************************************************************************)
(* Goal-to-Task Converter (src/app.py): the sanitizer of the generated     *)
(* response and the session state machine of the Streamlit page.           *)
(*                                                                         *)
(* Text is a sequence of one-character strings.  An optional value (a      *)
(* Python None, or a key that is absent from st.session_state/st.secrets)  *)
(* is the empty tuple None; a present value v is the one-element tuple     *)
(* Some(v).                                                                *)
(***************************************************************************)
EXTENDS Naturals, Sequences, FiniteSets

VARIABLES
    secrets,        \* st.secrets["OPENAI_API_KEY"]: None or Some(key)
    selected_goal,  \* st.session_state.selected_goal
    user_goal,      \* current value of the text area
    html_output,    \* st.session_state.html_output
    goal_name,      \* st.session_state.goal_name
    messages,       \* st.error/info/warning/success boxes shown by the last run
    preview,        \* content of the preview iframe shown by the last run
    download,       \* data of the download button shown by the last run
    spinner,        \* Some(goal) while the chat-completion call is in flight
    generator_call, \* argument of convert_goal_to_tasks in the last run, or None
    raw,            \* sanitizer harness: raw response under test
    sanitized,      \* sanitizer harness: None, or Some(Sanitize(raw))
    resanitized     \* sanitizer harness: None, or Some(Sanitize(sanitized))

appvars == <<secrets, selected_goal, user_goal, html_output, goal_name,
             messages, preview, download, spinner, generator_call>>
sanvars == <<raw, sanitized, resanitized>>
vars == <<secrets, selected_goal, user_goal, html_output, goal_name,
          messages, preview, download, spinner, generator_call,
          raw, sanitized, resanitized>>

None == << >>
Some(v) == <<v>>
Val(o) == o[1]

----------------------------------------------------------------------------
(* Bounds *)

MaxPieces == 5

----------------------------------------------------------------------------
(* Python string primitives used by the program *)

Whitespace == {" ", "\n"}

\* s.startswith(p)
StartsWith(s, p) ==
    /\ Len(s) >= Len(p)
    /\ SubSeq(s, 1, Len(p)) = p

\* s.replace(old, ""): left-to-right scan, non-overlapping matches
RECURSIVE Replace(_, _)
Replace(s, old) ==
    IF s = << >> THEN << >>
    ELSE IF StartsWith(s, old) THEN Replace(SubSeq(s, Len(old) + 1, Len(s)), old)
    ELSE <<Head(s)>> \o Replace(Tail(s), old)

RECURSIVE LStrip(_)
LStrip(s) ==
    IF s # << >> /\ Head(s) \in Whitespace THEN LStrip(Tail(s)) ELSE s

RECURSIVE RStrip(_)
RStrip(s) ==
    IF s # << >> /\ s[Len(s)] \in Whitespace THEN RStrip(SubSeq(s, 1, Len(s) - 1)) ELSE s

\* s.strip()
Strip(s) == RStrip(LStrip(s))

----------------------------------------------------------------------------
(* convert_goal_to_tasks: clean-up of markdown code blocks *)

\* the backtick character (the lexer of TLA+ strings rejects a literal backtick)
BT == "BT"

backticks == <<BT, BT, BT>>
backticks_html == <<BT, BT, BT, "h", "t", "m", "l">>

SanitizeNoStrip(s) ==
    IF StartsWith(s, backticks_html)
    THEN Replace(Replace(s, backticks_html), backticks)
    ELSE IF StartsWith(s, backticks)
    THEN Replace(s, backticks)
    ELSE s

SanitizeTaggedOnly(s) ==
    IF StartsWith(s, backticks_html)
    THEN Strip(Replace(s, backticks_html))
    ELSE IF StartsWith(s, backticks)
    THEN Strip(Replace(s, backticks))
    ELSE s

SanitizeFirstOnly(s) ==
    IF StartsWith(s, backticks_html)
    THEN Strip(Replace(Replace(s, backticks_html), backticks))
    ELSE IF StartsWith(s, backticks)
    THEN Strip(SubSeq(s, Len(backticks) + 1, Len(s)))
    ELSE s

\* lines 93-102
Sanitize(s) ==
    IF StartsWith(s, backticks_html)
    THEN Strip(Replace(Replace(s, backticks_html), backticks))
    ELSE IF StartsWith(s, backticks)
    THEN Strip(Replace(s, backticks))
    ELSE s

----------------------------------------------------------------------------
(* Sanitizer harness: every raw response built from at most MaxPieces      *)
(* pieces is sanitized, and the result is sanitized once more.             *)

Pieces == { <<BT>>, backticks_html, <<"h", "t", "m", "l">>, <<"x">>, <<" ">>, <<"\n">> }

RECURSIVE Flatten(_)
Flatten(ps) == IF ps = << >> THEN << >> ELSE Head(ps) \o Flatten(Tail(ps))

RawResponses == { Flatten(ps) : ps \in UNION { [1..n -> Pieces] : n \in 0..MaxPieces } }

AppIdle ==
    /\ secrets = None
    /\ selected_goal = None
    /\ user_goal = << >>
    /\ html_output = None
    /\ goal_name = None
    /\ messages = {}
    /\ preview = None
    /\ download = None
    /\ spinner = None
    /\ generator_call = None

InitSan ==
    /\ AppIdle
    /\ raw \in RawResponses
    /\ sanitized = None
    /\ resanitized = None

ApplySanitize ==
    /\ sanitized = None
    /\ sanitized' = Some(Sanitize(raw))
    /\ UNCHANGED <<raw, resanitized>>
    /\ UNCHANGED appvars

ApplyAgain ==
    /\ sanitized # None
    /\ resanitized = None
    /\ resanitized' = Some(Sanitize(Val(sanitized)))
    /\ UNCHANGED <<raw, sanitized>>
    /\ UNCHANGED appvars

NextSan == ApplySanitize \/ ApplyAgain

SpecSan == InitSan /\ [][NextSan]_vars

----------------------------------------------------------------------------
(* Vocabulary of the sanitizer properties *)

\* p occurs in s at position i
OccursAt(s, p, i) ==
    /\ i >= 1
    /\ i + Len(p) - 1 <= Len(s)
    /\ SubSeq(s, i, i + Len(p) - 1) = p

Contains(s, p) == \E i \in 1..Len(s) : OccursAt(s, p, i)

\* position i of s lies inside some occurrence (overlapping ones included)
\* of the tagged or of the bare fence marker
InFence(s, i) ==
    \/ \E j \in 1..i : j + Len(backticks) - 1 >= i /\ OccursAt(s, backticks, j)
    \/ \E j \in 1..i : j + Len(backticks_html) - 1 >= i /\ OccursAt(s, backticks_html, j)

\* the characters of s at positions i..Len(s) that lie in no marker occurrence
RECURSIVE NonFenceFrom(_, _)
NonFenceFrom(s, i) ==
    IF i > Len(s) THEN << >>
    ELSE (IF InFence(s, i) THEN << >> ELSE <<s[i]>>) \o NonFenceFrom(s, i + 1)

NonFence(s) == NonFenceFrom(s, 1)

\* a is b with some characters deleted
RECURSIVE IsSubseq(_, _)
IsSubseq(a, b) ==
    IF a = << >> THEN TRUE
    ELSE IF b = << >> THEN FALSE
    ELSE IF Head(a) = Head(b) THEN IsSubseq(Tail(a), Tail(b))
    ELSE IsSubseq(a, Tail(b))

\* length of the run of backticks at the head of s
RECURSIVE RunLen(_)
RunLen(s) == IF s # << >> /\ Head(s) = BT THEN 1 + RunLen(Tail(s)) ELSE 0

\* s with every maximal run of n backticks shortened to n mod 3 backticks
RECURSIVE RunsMod3(_)
RunsMod3(s) ==
    IF s = << >> THEN << >>
    ELSE IF Head(s) = BT
    THEN [k \in 1..(RunLen(s) % 3) |-> BT] \o RunsMod3(SubSeq(s, RunLen(s) + 1, Len(s)))
    ELSE <<Head(s)>> \o RunsMod3(Tail(s))

Trimmed(s) == s = << >> \/ (Head(s) \notin Whitespace /\ s[Len(s)] \notin Whitespace)

TaggedPrefix == StartsWith(raw, backticks_html)
BarePrefix == StartsWith(raw, backticks) /\ ~StartsWith(raw, backticks_html)
NoPrefix == ~StartsWith(raw, backticks)

----------------------------------------------------------------------------
(* Sanitizer claims, checked under SpecSan *)

\* C3: a raw response that begins with the tagged marker is sanitized to a
\* text with no tagged and no bare marker in which every character of the raw
\* response that lies in no marker occurrence is kept, in order (surrounding
\* whitespace apart), and nothing is added.
C3_TaggedKeepsNonFence ==
    (sanitized # None /\ TaggedPrefix) =>
        /\ ~Contains(Val(sanitized), backticks_html)
        /\ ~Contains(Val(sanitized), backticks)
        /\ IsSubseq(Strip(NonFence(raw)), Val(sanitized))
        /\ IsSubseq(Val(sanitized), raw)

\* C4: a raw response that begins with the bare marker but not the tagged one
\* loses exactly its bare markers (every run of n backticks keeps n mod 3 of
\* them) and its surrounding whitespace; a later tagged marker keeps its
\* "html"; no run of three backticks is left.
C4_BareStripsOnlyBare ==
    (sanitized # None /\ BarePrefix) =>
        /\ Val(sanitized) = Strip(RunsMod3(raw))
        /\ ~Contains(Val(sanitized), backticks)
        /\ (Contains(raw, backticks_html) => Contains(Val(sanitized), <<"h", "t", "m", "l">>))

C4_Witness ==
    /\ sanitized # None
    /\ BarePrefix
    /\ Contains(raw, backticks_html)
    /\ Contains(Val(sanitized), <<"x", "h", "t", "m", "l">>)

\* C5: a raw response with no fence marker is returned character for
\* character, and sanitizing a sanitized text returns it unchanged.
C5_NoFenceUnalteredIdempotent ==
    /\ (sanitized # None /\ ~Contains(raw, backticks)) => Val(sanitized) = raw
    /\ resanitized # None => Val(resanitized) = Val(sanitized)

C5_Witness ==
    /\ resanitized # None
    /\ ~Contains(raw, backticks)
    /\ Len(raw) > 2
    /\ Head(raw) \in Whitespace
    /\ Contains(raw, <<BT, BT>>)

\* C6 as stated: in all three branches the result has no leading and no
\* trailing whitespace.
C6_AllBranchesTrimmed ==
    sanitized # None => Trimmed(Val(sanitized))

\* C6 amended: in the two fence branches the result has no leading and no
\* trailing whitespace; without a fence prefix the response is returned as
\* it is, surrounding whitespace included.
C6_FenceBranchesTrimmed ==
    sanitized # None =>
        /\ (TaggedPrefix \/ BarePrefix) => Trimmed(Val(sanitized))
        /\ NoPrefix => Val(sanitized) = raw

C6_Witness ==
    /\ sanitized # None
    /\ BarePrefix
    /\ raw[Len(raw)] \in Whitespace
    /\ Val(sanitized) # << >>
    /\ Val(sanitized) # raw

----------------------------------------------------------------------------
(* The page: one action is one run of main(), the blocking chat-completion *)
(* call apart, which splits the submitting run in two.                     *)

\* lines 164-171
example_goals ==
    <<
        <<"L","e","a","r","n"," ","S","p","a","n","i","s","h"," ","i","n",
          " ","6"," ","m","o","n","t","h","s">>,
        <<"S","t","a","r","t"," ","a"," ","Y","o","u","T","u","b","e"," ",
          "c","h","a","n","n","e","l">>,
        <<"B","u","i","l","d"," ","a"," ","m","o","b","i","l","e"," ","a",
          "p","p">>,
        <<"W","r","i","t","e"," ","a"," ","n","o","v","e","l">>,
        <<"G","e","t"," ","f","i","t"," ","a","n","d"," ","r","u","n"," ",
          "a"," ","m","a","r","a","t","h","o","n">>,
        <<"L","a","u","n","c","h"," ","a","n"," ","o","n","l","i","n","e",
          " ","b","u","s","i","n","e","s","s">>
    >>

\* texts the user types into the text area
TypedTexts ==
    { << >>, <<" ">>, <<"\n", " ">>, <<"g">>, <<" ", "g", "o", "\n">> }

\* states of the secret store: no secrets file, file without the key, key set
SecretStores ==
    { [file |-> FALSE, key |-> None],
      [file |-> TRUE, key |-> None],
      [file |-> TRUE, key |-> Some(<< >>)],
      [file |-> TRUE, key |-> Some(<<"s", "k">>)] }

\* raw contents of the first choice of a chat-completion response
Contents ==
    { << >>,
      <<"x">>,
      <<" ", "x", "\n">>,
      backticks_html \o backticks,
      backticks_html \o <<"\n", "y", "\n">> \o backticks,
      backticks \o <<"z">> \o backticks }

\* what the OpenAI client does with one request: the constructor raises, the
\* request raises, or a response arrives whose content is a text or None
Outcomes ==
    { [kind |-> "client_error", content |-> None],
      [kind |-> "api_error", content |-> None],
      [kind |-> "response", content |-> None] }
    \cup { [kind |-> "response", content |-> Some(c)] : c \in Contents }

\* Python truthiness of an optional text
Truthy(o) == o # None /\ Val(o) # << >>

\* st.secrets["OPENAI_API_KEY"]
SecretsLookup(store) ==
    IF ~store.file THEN [raised |-> "FileNotFoundError", value |-> None]
    ELSE IF store.key = None THEN [raised |-> "KeyError", value |-> None]
    ELSE [raised |-> "", value |-> store.key]

get_api_key_KeyErrorOnly(store) ==
    LET r == SecretsLookup(store) IN
    IF r.raised \in {"KeyError"}
    THEN [raised |-> "", ret |-> None,
          shown |-> {"error_key_not_found", "info_configure_secrets"}]
    ELSE [raised |-> r.raised, ret |-> r.value, shown |-> {}]

\* lines 65-72
get_api_key(store) ==
    LET r == SecretsLookup(store) IN
    IF r.raised \in {"KeyError", "FileNotFoundError"}
    THEN [raised |-> "", ret |-> None,
          shown |-> {"error_key_not_found", "info_configure_secrets"}]
    ELSE [raised |-> r.raised, ret |-> r.value, shown |-> {}]

\* the exception raised inside the try block of convert_goal_to_tasks, or ""
RaisedIn(outcome) ==
    IF outcome.kind # "response" THEN outcome.kind
    ELSE IF outcome.content = None THEN "AttributeError"
    ELSE ""

convert_goal_to_tasks_NoExcept(outcome) ==
    IF RaisedIn(outcome) # ""
    THEN [raised |-> RaisedIn(outcome), ret |-> None, shown |-> {}]
    ELSE [raised |-> "", ret |-> Some(Sanitize(Val(outcome.content))), shown |-> {}]

\* lines 75-106
convert_goal_to_tasks(outcome) ==
    IF RaisedIn(outcome) # ""
    THEN [raised |-> "", ret |-> None, shown |-> {"error_generator"}]
    ELSE [raised |-> "", ret |-> Some(Sanitize(Val(outcome.content))), shown |-> {}]

BranchNoStrip(api_key, text) ==
    IF ~Truthy(api_key) THEN "config_error"
    ELSE IF text = << >> THEN "warning"
    ELSE "generate"

\* lines 217-221: which branch of the submission handler is taken
Branch(api_key, text) ==
    IF ~Truthy(api_key) THEN "config_error"
    ELSE IF Strip(text) = << >> THEN "warning"
    ELSE "generate"

StoreResultClearOnFailure(old_html, old_name, result, text) ==
    IF Truthy(result)
    THEN [html_output |-> result, goal_name |-> Some(Strip(text)), shown |-> {"success"}]
    ELSE [html_output |-> None, goal_name |-> None, shown |-> {}]

StoreResultNotNone(old_html, old_name, result, text) ==
    IF result # None
    THEN [html_output |-> result, goal_name |-> Some(Strip(text)), shown |-> {"success"}]
    ELSE [html_output |-> old_html, goal_name |-> old_name, shown |-> {}]

StoreResultUntrimmedGoal(old_html, old_name, result, text) ==
    IF Truthy(result)
    THEN [html_output |-> result, goal_name |-> Some(text), shown |-> {"success"}]
    ELSE [html_output |-> old_html, goal_name |-> old_name, shown |-> {}]

\* lines 225-230
StoreResult(old_html, old_name, result, text) ==
    IF Truthy(result)
    THEN [html_output |-> result, goal_name |-> Some(Strip(text)), shown |-> {"success"}]
    ELSE [html_output |-> old_html, goal_name |-> old_name, shown |-> {}]

\* lines 233-258: the results area shows the session's html_output, if any
Results(session_html) == [preview |-> session_html, download |-> session_html]

\* line 184
default_goal == IF selected_goal = None THEN << >> ELSE Val(selected_goal)

Init ==
    /\ secrets \in SecretStores
    /\ selected_goal = None
    /\ user_goal = << >>
    /\ html_output = None
    /\ goal_name = None
    /\ messages = {}
    /\ preview = None
    /\ download = None
    /\ spinner = None
    /\ generator_call = None
    /\ raw = << >>
    /\ sanitized = None
    /\ resanitized = None

\* a run of main() that an exception leaves: the page shows the traceback
Aborted ==
    /\ messages' = {"uncaught_exception"}
    /\ preview' = None
    /\ download' = None
    /\ spinner' = None
    /\ generator_call' = None
    /\ UNCHANGED <<html_output, goal_name>>

\* lines 173-175, then the rest of the run with generate_clicked false.  The
\* text area has no key: a new default value makes it a new widget that
\* starts from that default; the same default keeps the typed text.
ClickExample(goal) ==
    /\ spinner = None
    /\ selected_goal' = Some(goal)
    /\ user_goal' = IF goal # default_goal THEN goal ELSE user_goal
    /\ messages' = {}
    /\ preview' = Results(html_output).preview
    /\ download' = Results(html_output).download
    /\ generator_call' = None
    /\ UNCHANGED <<secrets, html_output, goal_name, spinner>>
    /\ UNCHANGED sanvars

\* lines 186-192: the user commits a new text; the run has no button clicked
EditText(text) ==
    /\ spinner = None
    /\ text # user_goal
    /\ user_goal' = text
    /\ messages' = {}
    /\ preview' = Results(html_output).preview
    /\ download' = Results(html_output).download
    /\ generator_call' = None
    /\ UNCHANGED <<secrets, selected_goal, html_output, goal_name, spinner>>
    /\ UNCHANGED sanvars

\* lines 214-223: the generate button is clicked; the run either ends with a
\* message or blocks in the chat-completion call
ClickGenerate ==
    /\ spinner = None
    /\ LET k == get_api_key(secrets) IN
        IF k.raised # "" THEN Aborted
        ELSE IF Branch(k.ret, user_goal) = "config_error" THEN
            /\ messages' = k.shown \cup {"error_api_key_configuration"}
            /\ preview' = Results(html_output).preview
            /\ download' = Results(html_output).download
            /\ generator_call' = None
            /\ UNCHANGED <<html_output, goal_name, spinner>>
        ELSE IF Branch(k.ret, user_goal) = "warning" THEN
            /\ messages' = k.shown \cup {"warning_enter_goal"}
            /\ preview' = Results(html_output).preview
            /\ download' = Results(html_output).download
            /\ generator_call' = None
            /\ UNCHANGED <<html_output, goal_name, spinner>>
        ELSE
            /\ generator_call' = Some([api_key |-> Val(k.ret), user_goal |-> Strip(user_goal)])
            /\ spinner' = Some(Strip(user_goal))
            /\ messages' = k.shown
            /\ preview' = None
            /\ download' = None
            /\ UNCHANGED <<html_output, goal_name>>
    /\ UNCHANGED <<secrets, selected_goal, user_goal>>
    /\ UNCHANGED sanvars

\* lines 78-106 and 223-258: the call returns or raises, and the run ends
GeneratorReturns(outcome) ==
    /\ spinner # None
    /\ LET r == convert_goal_to_tasks(outcome) IN
        IF r.raised # "" THEN Aborted
        ELSE LET st == StoreResult(html_output, goal_name, r.ret, user_goal) IN
            /\ html_output' = st.html_output
            /\ goal_name' = st.goal_name
            /\ messages' = r.shown \cup st.shown
            /\ preview' = Results(st.html_output).preview
            /\ download' = Results(st.html_output).download
            /\ spinner' = None
            /\ UNCHANGED generator_call
    /\ UNCHANGED <<secrets, selected_goal, user_goal>>
    /\ UNCHANGED sanvars

Next ==
    \/ \E i \in 1..Len(example_goals) : ClickExample(example_goals[i])
    \/ \E text \in TypedTexts : EditText(text)
    \/ ClickGenerate
    \/ \E outcome \in Outcomes : GeneratorReturns(outcome)

Spec == Init /\ [][Next]_vars

----------------------------------------------------------------------------
(* Vocabulary of the page properties *)

SessionUnchanged == UNCHANGED <<selected_goal, html_output, goal_name>>

EmptyGoal == Strip(user_goal) = << >>

CredentialUsable == Truthy(secrets.key)

Failures == { o \in Outcomes : o.kind # "response" \/ o.content = None }

Successes == { o \in Outcomes : o.kind = "response" /\ o.content # None }

GeneratorFails == \E o \in Failures : GeneratorReturns(o)

----------------------------------------------------------------------------
(* Page claims, checked under Spec *)

\* C1 as stated: every submission of an empty or whitespace-only goal, with
\* the credential present or missing, shows the "please enter a goal"
\* warning and does not invoke the Generator.
C1_EmptyGoalAlwaysWarns ==
    [][(ClickGenerate /\ EmptyGoal) =>
        /\ "warning_enter_goal" \in messages'
        /\ generator_call' = None
        /\ spinner' = None]_vars

\* C1 amended: a submission of an empty or whitespace-only goal never invokes
\* the Generator and changes no session value; it shows the "please enter a
\* goal" warning when the credential is present and non-empty, and the
\* configuration error (not the warning) otherwise.  The Generator is only
\* ever invoked with a non-empty goal.
C1_EmptyGoalRejected ==
    /\ [][(ClickGenerate /\ EmptyGoal) =>
            /\ generator_call' = None
            /\ spinner' = None
            /\ SessionUnchanged
            /\ CredentialUsable => messages' = {"warning_enter_goal"}
            /\ ~CredentialUsable =>
                /\ "error_api_key_configuration" \in messages'
                /\ "warning_enter_goal" \notin messages']_vars
    /\ [](generator_call # None =>
            /\ Val(generator_call).user_goal # << >>
            /\ Val(generator_call).user_goal = Strip(user_goal))

C1_Witness ==
    /\ "warning_enter_goal" \in messages
    /\ user_goal # << >>
    /\ html_output # None

\* C2: a failed generation call (the client constructor raises, the request
\* raises, or the post-processing raises) is caught: the Generator returns no
\* result, an error message is shown, and html_output and goal_name keep the
\* values they had before the submission, unset or set.
C2_FailureKeepsSession ==
    [][GeneratorFails =>
        /\ \A o \in Failures :
            /\ convert_goal_to_tasks(o).ret = None
            /\ convert_goal_to_tasks(o).raised = ""
        /\ "error_generator" \in messages'
        /\ "uncaught_exception" \notin messages'
        /\ "success" \notin messages'
        /\ html_output' = html_output
        /\ goal_name' = goal_name]_vars

C2_Witness ==
    /\ "error_generator" \in messages
    /\ html_output # None
    /\ goal_name # None
    /\ goal_name # Some(Strip(user_goal))

\* C7 as stated: after a successful call that returns raw response r the
\* session's html_output is the sanitized form of r, for every r, an r whose
\* sanitized form is empty included, and the results area shows it.
C7_EveryResponseStored ==
    [][\A o \in Successes : GeneratorReturns(o) =>
        /\ html_output' = Some(Sanitize(Val(o.content)))
        /\ preview' = html_output'
        /\ download' = html_output']_vars

\* C7 amended: after a successful call that returns raw response r whose
\* sanitized form is not empty, html_output is the sanitized form of r,
\* goal_name is the trimmed goal, and the results area shows that html_output;
\* when the sanitized form of r is empty nothing is stored: html_output and
\* goal_name keep their values, no success message is shown, and the results
\* area shows the earlier html_output, if any.
C7_NonEmptyResponseStored ==
    [][\A o \in Successes : GeneratorReturns(o) =>
        /\ Sanitize(Val(o.content)) # << >> =>
            /\ html_output' = Some(Sanitize(Val(o.content)))
            /\ goal_name' = Some(Strip(user_goal))
            /\ messages' = {"success"}
        /\ Sanitize(Val(o.content)) = << >> =>
            /\ html_output' = html_output
            /\ goal_name' = goal_name
            /\ messages' = {}
        /\ preview' = html_output'
        /\ download' = html_output'
        /\ spinner' = None]_vars

C7_Witness ==
    /\ "success" \in messages
    /\ html_output = Some(<<"y">>)
    /\ preview = html_output
    /\ download = html_output

\* C8 as stated: a failed generation, from any state, leads to a state in
\* which an error is shown, no breakdown is displayed and no download is
\* offered, even when an earlier submission of the session had succeeded.
C8_FailureHidesBreakdown ==
    [][GeneratorFails =>
        /\ "error_generator" \in messages'
        /\ preview' = None
        /\ download' = None]_vars

\* C8 amended: the page is Pending only between an accepted submission and
\* the end of its generation call; an accepted submission from Idle or Ready
\* goes to Pending; a generation that returns a non-empty breakdown ends
\* Pending in Ready; a failed generation ends Pending with an error shown, and
\* the results area then shows exactly the breakdown of the last earlier
\* successful submission: nothing when there was none, the earlier breakdown
\* and its download otherwise.
C8_StateMachine ==
    /\ [][spinner' # None =>
            /\ spinner = None
            /\ ClickGenerate
            /\ CredentialUsable
            /\ ~EmptyGoal]_vars
    /\ [][(ClickGenerate /\ CredentialUsable /\ ~EmptyGoal) =>
            /\ spinner' = Some(Strip(user_goal))
            /\ messages' = {}]_vars
    /\ [][spinner # None => (spinner' = None /\ \E o \in Outcomes : GeneratorReturns(o))]_vars
    /\ [][\A o \in Successes :
            (GeneratorReturns(o) /\ Sanitize(Val(o.content)) # << >>) =>
                /\ spinner' = None
                /\ preview' = Some(Sanitize(Val(o.content)))
                /\ download' = preview']_vars
    /\ [][GeneratorFails =>
            /\ spinner' = None
            /\ "error_generator" \in messages'
            /\ preview' = html_output
            /\ download' = html_output
            /\ html_output' = html_output]_vars
    /\ []((spinner = None /\ "uncaught_exception" \notin messages) =>
            (preview = html_output /\ download = html_output))

C8_Witness ==
    /\ "error_generator" \in messages
    /\ spinner = None
    /\ preview # None
    /\ download # None

\* C9: with the credential missing from the secret store (no secrets file, or
\* a file without the key) every submission, whatever the goal text, shows
\* the configuration error, does not invoke the Generator, changes no session
\* value, raises nothing out of the run, and leaves the page ready for the
\* next interaction.
C9_MissingCredential ==
    [][(ClickGenerate /\ secrets.key = None) =>
        /\ messages' = {"error_key_not_found", "info_configure_secrets",
                        "error_api_key_configuration"}
        /\ generator_call' = None
        /\ spinner' = None
        /\ SessionUnchanged
        /\ preview' = html_output
        /\ download' = html_output]_vars

C9_Witness ==
    /\ secrets = [file |-> FALSE, key |-> None]
    /\ "error_api_key_configuration" \in messages
    /\ ~EmptyGoal
    /\ selected_goal # None

\* C10: html_output is set exactly when goal_name is set; when set,
\* html_output is a non-empty text and goal_name a non-empty text without
\* surrounding whitespace; once set neither is removed; and they change only
\* together, at the end of a successful submission, goal_name becoming the
\* trimmed goal of that submission.
C10_SessionInvariant ==
    /\ []((html_output # None) <=> (goal_name # None))
    /\ [](html_output # None =>
            /\ Val(html_output) # << >>
            /\ Val(goal_name) # << >>
            /\ Strip(Val(goal_name)) = Val(goal_name))
    /\ [][html_output # None => (html_output' # None /\ goal_name' # None)]_vars
    /\ [][(html_output' # html_output \/ goal_name' # goal_name) =>
            /\ spinner # None
            /\ "success" \in messages'
            /\ goal_name' = Some(Strip(user_goal))
            /\ goal_name' = spinner
            /\ html_output' # None]_vars

C10_Witness ==
    /\ html_output # None
    /\ "warning_enter_goal" \in messages
    /\ goal_name = Some(<<"g", "o">>)
    /\ selected_goal # None

====
